---- MODULE Spec2Model ----
\* Price/stock synchronisation between a supplier feed and two marketplace
\* seller APIs (seller.py: Ozon, market.py: Yandex Market).
\*
\* Strings whose characters the code inspects (quantities, prices) are
\* sequences of one-character strings; offer identifiers are only compared for
\* equality and are plain strings.
EXTENDS Integers, Sequences, FiniteSets, TLC

VARIABLES
    program,        \* which entry point runs: a main(), or a function called directly
    pc,             \* position of the running code
    feed,           \* the supplier's file as served by the supplier site
    catalogue,      \* campaign -> the identifiers listed on the marketplace (server side)
    watch_remnants, \* the parsed supplier records held by the program
    campaign,       \* index of the campaign main() is working on
    page,           \* get_offer_ids: cursor sent with the next page request
    product_list,   \* get_offer_ids: products accumulated so far
    offer_ids,      \* the program's list of offer identifiers (mutated in place)
    listed,         \* campaign index -> offer_ids as returned by get_offer_ids
    stocks,         \* result of create_stocks
    prices,         \* result of create_prices
    todo,           \* list(divide(...)) still to be submitted
    log,            \* every remote request issued, in order, with its outcome
    unawaited,      \* campaigns whose upload_prices coroutine was created, never run
    call            \* direct call of a function: its name and its arguments at entry

vars == <<program, pc, feed, catalogue, watch_remnants, campaign, page,
          product_list, offer_ids, listed, stocks, prices, todo, log,
          unawaited, call>>

----------------------------------------------------------------------------
\* Bounds of the model

MaxFeed == 3        \* supplier records in a directly called reconciler
MaxRunFeed == 2     \* supplier records in a run of main()
MaxOffers == 3      \* identifiers listed in one campaign
MaxList == 5        \* length of a list handed to divide directly
MaxChunk == 3       \* chunk size handed to divide directly
PageLimit == 1      \* items per listing page (the code asks for 1000 / 200)
StockChunk == 2     \* stands for the chunk sizes 100 (seller) / 2000 (market)
PriceChunk == 1     \* stands for the chunk sizes 900 (seller) / 500 (market)

----------------------------------------------------------------------------
\* Small helpers for Python lists and strings

Min(a, b) == IF a < b THEN a ELSE b

Range(s) == {s[i] : i \in 1..Len(s)}

\* x in lst
InList(x, lst) == \E i \in 1..Len(lst) : lst[i] = x

\* lst.remove(x) forgotten: the list is left as it was
ListRemoveKept(lst, x) == lst

\* lst.remove(x): drops the first occurrence of x (x is known to be in lst)
ListRemove(lst, x) ==
    LET i == CHOOSE j \in 1..Len(lst) :
                 lst[j] = x /\ \A k \in 1..(j - 1) : lst[k] # x
    IN  SubSeq(lst, 1, i - 1) \o SubSeq(lst, i + 1, Len(lst))

Digits == <<"0", "1", "2", "3", "4", "5", "6", "7", "8", "9">>

IsDigit(c) == InList(c, Digits)

DigitVal(c) == (CHOOSE i \in 1..10 : Digits[i] = c) - 1

RECURSIVE DecimalValue(_)
DecimalValue(s) ==
    IF Len(s) = 0 THEN 0
    ELSE 10 * DecimalValue(SubSeq(s, 1, Len(s) - 1)) + DigitVal(s[Len(s)])

\* int(s) for a string s over the characters used here (digits, ">", ",", ".",
\* letters): a non-empty run of digits parses, anything else raises ValueError.
PyInt(s) ==
    IF Len(s) > 0 /\ \A i \in 1..Len(s) : IsDigit(s[i])
    THEN [ok |-> TRUE, val |-> DecimalValue(s)]
    ELSE [ok |-> FALSE, val |-> 0]

\* price.split(".")[0]
BeforeDot(price) ==
    IF InList(".", price)
    THEN SubSeq(price, 1,
                (CHOOSE j \in 1..Len(price) :
                    price[j] = "." /\ \A k \in 1..(j - 1) : price[k] # ".") - 1)
    ELSE price

price_conversion(price) == SelectSeq(BeforeDot(price), IsDigit)

Ceil(a, n) == (a + n - 1) \div n

\* divide with range(0, len(lst) - n + 1, n): the remainder is dropped
divide_full_chunks(lst, n) ==
    [k \in 1..(Len(lst) \div n) |-> SubSeq(lst, (k - 1) * n + 1, k * n)]

\* list(divide(lst, n)): the slices lst[i : i + n] for i in range(0, len(lst), n)
divide(lst, n) ==
    [k \in 1..Ceil(Len(lst), n) |->
        SubSeq(lst, (k - 1) * n + 1, Min(k * n, Len(lst)))]

----------------------------------------------------------------------------
\* The reconcilers

GT10 == <<">", "1", "0">>
ONE == <<"1">>

\* The if / elif / else on count in both create_stocks: the stock, or the
\* ValueError of int() on a quantity that is no number
stock_count_no_bucket(count) ==
    IF count = GT10 THEN [ok |-> TRUE, val |-> 100] ELSE PyInt(count)

stock_count(count) ==
    IF count = GT10 THEN [ok |-> TRUE, val |-> 100]
    ELSE IF count = ONE THEN [ok |-> TRUE, val |-> 0]
    ELSE PyInt(count)

\* seller.create_stocks, first loop, from record i on: ids is offer_ids as
\* mutated so far, acc the stocks appended so far. int() of an unparseable
\* quantity raises and leaves offer_ids as mutated up to there.
RECURSIVE seller_match_stocks(_, _, _, _)
seller_match_stocks(wr, i, ids, acc) ==
    IF i > Len(wr)
    THEN [raised |-> FALSE, stocks |-> acc, offer_ids |-> ids]
    ELSE LET watch == wr[i]
             count == watch.qty
         IN  IF ~InList(watch.code, ids)
             THEN seller_match_stocks(wr, i + 1, ids, acc)
             ELSE IF ~stock_count(count).ok
             THEN [raised |-> TRUE, stocks |-> acc, offer_ids |-> ids]
             ELSE LET stock == stock_count(count).val
                  IN  seller_match_stocks(wr, i + 1,
                          ListRemove(ids, watch.code),
                          Append(acc, [offer_id |-> watch.code, stock |-> stock]))

\* create_stocks without its second loop: no zero record for what is left
seller_create_stocks_matched_only(wr, ids) == seller_match_stocks(wr, 1, ids, <<>>)

seller_create_stocks(wr, ids) ==
    LET m == seller_match_stocks(wr, 1, ids, <<>>)
    IN  IF m.raised THEN m
        ELSE [raised |-> FALSE,
              stocks |-> m.stocks \o
                  [k \in 1..Len(m.offer_ids) |->
                      [offer_id |-> m.offer_ids[k], stock |-> 0]],
              offer_ids |-> m.offer_ids]

\* str(datetime.datetime.utcnow()...): read once per call of market.create_stocks
Date == "utcnow"

market_sku(sku, warehouse_id, n) ==
    [sku |-> sku, warehouseId |-> warehouse_id,
     items |-> <<[count |-> n, type |-> "FIT", updatedAt |-> Date]>>]

RECURSIVE market_match_stocks(_, _, _, _, _)
market_match_stocks(wr, i, ids, warehouse_id, acc) ==
    IF i > Len(wr)
    THEN [raised |-> FALSE, stocks |-> acc, offer_ids |-> ids]
    ELSE LET watch == wr[i]
             count == watch.qty
         IN  IF ~InList(watch.code, ids)
             THEN market_match_stocks(wr, i + 1, ids, warehouse_id, acc)
             ELSE IF ~stock_count(count).ok
             THEN [raised |-> TRUE, stocks |-> acc, offer_ids |-> ids]
             ELSE LET stock == stock_count(count).val
                  IN  market_match_stocks(wr, i + 1,
                          ListRemove(ids, watch.code), warehouse_id,
                          Append(acc, market_sku(watch.code, warehouse_id, stock)))

market_create_stocks(wr, ids, warehouse_id) ==
    LET m == market_match_stocks(wr, 1, ids, warehouse_id, <<>>)
    IN  IF m.raised THEN m
        ELSE [raised |-> FALSE,
              stocks |-> m.stocks \o
                  [k \in 1..Len(m.offer_ids) |->
                      market_sku(m.offer_ids[k], warehouse_id, 0)],
              offer_ids |-> m.offer_ids]

\* seller.create_prices: the price stays the digit string price_conversion gives
seller_price(watch) ==
    [auto_action_enabled |-> "UNKNOWN", currency_code |-> "RUB",
     offer_id |-> watch.code, old_price |-> "0",
     price |-> price_conversion(watch.price)]

\* create_prices without its test on offer_ids: a price for every record
seller_create_prices_all(wr, ids) ==
    [raised |-> FALSE, prices |-> [k \in 1..Len(wr) |-> seller_price(wr[k])]]

seller_create_prices(wr, ids) ==
    LET hit == SelectSeq(wr, LAMBDA watch : InList(watch.code, ids))
    IN  [raised |-> FALSE,
         prices |-> [k \in 1..Len(hit) |-> seller_price(hit[k])]]

\* market.create_prices: int(price_conversion(...)) raises on the empty string
RECURSIVE market_match_prices(_, _, _, _)
market_match_prices(wr, i, ids, acc) ==
    IF i > Len(wr)
    THEN [raised |-> FALSE, prices |-> acc]
    ELSE LET watch == wr[i]
             value == PyInt(price_conversion(watch.price))
         IN  IF ~InList(watch.code, ids)
             THEN market_match_prices(wr, i + 1, ids, acc)
             ELSE IF ~value.ok
             THEN [raised |-> TRUE, prices |-> acc]
             ELSE market_match_prices(wr, i + 1, ids,
                      Append(acc, [id |-> watch.code,
                                   price |-> [value |-> value.val,
                                              currencyId |-> "RUR"]]))

market_create_prices(wr, ids) == market_match_prices(wr, 1, ids, <<>>)

----------------------------------------------------------------------------
\* Inputs

\* identifiers a campaign may list
Codes == {"A", "B", "C"}

\* rows of the supplier file: Z is a code no campaign lists, A comes twice
Rows == {
    [code |-> "A", qty |-> GT10,          price |-> <<"1", "2", "3", "4", "5", ".", "6", "7">>],
    [code |-> "B", qty |-> ONE,           price |-> <<"1", ",", "2", "3", "4", ".", "5">>],
    [code |-> "C", qty |-> <<"5">>,       price |-> <<"9", "9", "9", ".", "0", "0">>],
    [code |-> "A", qty |-> <<"1", "2">>,  price |-> <<".", "1", "2">>],
    [code |-> "Z", qty |-> ONE,           price |-> <<"7">>],
    [code |-> "B", qty |-> <<"n">>,       price |-> <<"p", "r", "i", "c", "e">>] }

\* rows of the supplier file in a run of main()
RunRows == {r \in Rows : r.qty \in {GT10, <<"5">>, <<"n">>} \/ r.code = "Z"}

Feeds(rows, n) == UNION {[1..k -> rows] : k \in 0..n}

\* lists of distinct identifiers: a marketplace lists an offer identifier once
OfferLists(n) ==
    {s \in UNION {[1..k -> Codes] : k \in 0..Min(n, Cardinality(Codes))} :
        \A i, j \in 1..Len(s) : i # j => s[i] # s[j]}

----------------------------------------------------------------------------
\* The marketplace listing APIs, as get_product_list returns them. A cursor is
\* the number of items already served; 0 is the empty cursor "" of the first
\* request and of a last Yandex page.

PageItems(cat, cursor) == SubSeq(cat, cursor + 1, Min(cursor + PageLimit, Len(cat)))

\* seller.get_product_list: the "result" object of /v2/product/list
ozon_product_list(cat, last_id) ==
    LET ids == PageItems(cat, last_id)
    IN  [items |-> [k \in 1..Len(ids) |-> [offer_id |-> ids[k]]],
         total |-> Len(cat),
         last_id |-> last_id + Len(ids)]

\* market.get_product_list: the "result" object of offer-mapping-entries
yandex_product_list(cat, page_token) ==
    LET ids == PageItems(cat, page_token)
        next == page_token + Len(ids)
    IN  [offerMappingEntries |-> [k \in 1..Len(ids) |-> [offer |-> [shopSku |-> ids[k]]]],
         paging |-> [nextPageToken |-> IF next < Len(cat) THEN next ELSE 0]]

\* the loop of seller.get_offer_ids comparing total with the size of the page
\* just fetched instead of the size of product_list
seller_get_offer_ids_step_page_len(products, some_prod) ==
    LET all == products \o some_prod.items
    IN  [product_list |-> all,
         cursor |-> some_prod.last_id,
         break |-> some_prod.total = Len(some_prod.items),
         offer_ids |-> [k \in 1..Len(all) |-> all[k].offer_id]]

\* One turn of the while loop of seller.get_offer_ids on the response some_prod:
\* the new locals, whether the loop breaks, and the identifiers it then returns.
seller_get_offer_ids_step(products, some_prod) ==
    LET all == products \o some_prod.items
    IN  [product_list |-> all,
         cursor |-> some_prod.last_id,
         break |-> some_prod.total = Len(all),
         offer_ids |-> [k \in 1..Len(all) |-> all[k].offer_id]]

\* One turn of the while loop of market.get_offer_ids
market_get_offer_ids_step(products, some_prod) ==
    LET all == products \o some_prod.offerMappingEntries
    IN  [product_list |-> all,
         cursor |-> some_prod.paging.nextPageToken,
         break |-> some_prod.paging.nextPageToken = 0,
         offer_ids |-> [k \in 1..Len(all) |-> all[k].offer.shopSku]]

----------------------------------------------------------------------------
\* Entry points

Mains == {"seller.main", "market.main"}
Uploads == {"seller.upload_prices", "market.upload_prices"}
Programs == Mains \cup Uploads

IsSeller == program \in {"seller.main", "seller.upload_prices"}

\* campaigns a program works on, in order
Campaigns(prog) == IF prog = "market.main" THEN <<"FBS", "DBS">>
                   ELSE IF prog = "market.upload_prices" THEN <<"campaign_id">>
                   ELSE <<"client_id">>

Warehouse(c) == IF c = 1 THEN "WAREHOUSE_FBS_ID" ELSE "WAREHOUSE_DBS_ID"

Terminal == {"done", "aborted", "crashed", "raised"}

\* where an exception raised inside the program ends up: main() catches it and
\* prints, an upload_prices coroutine lets it propagate to whoever awaits it
Caught == IF program \in Mains THEN "aborted" ELSE "raised"

NoCall == [fn |-> "none", offer_ids |-> <<>>, lst |-> <<>>, n |-> 0]

\* a run of a main() or of an upload_prices coroutine
RunInit ==
    /\ program \in Programs
    /\ pc = IF program = "market.main" THEN "download" ELSE "list"
    /\ feed \in Feeds(RunRows, MaxRunFeed)
    /\ catalogue \in [1..Len(Campaigns(program)) -> OfferLists(MaxOffers)]
    /\ watch_remnants = IF program \in Uploads THEN feed ELSE <<>>
    /\ campaign = 1
    /\ page = 0
    /\ product_list = <<>>
    /\ offer_ids = <<>>
    /\ listed = <<>>
    /\ stocks = <<>>
    /\ prices = <<>>
    /\ todo = <<>>
    /\ log = <<>>
    /\ unawaited = {}
    /\ call = NoCall

Request(op, ok) == [op |-> op, campaign |-> campaign, ok |-> ok]

\* download_stock() succeeds
DownloadStock ==
    /\ pc = "download"
    /\ watch_remnants' = feed
    /\ log' = Append(log, Request("download", TRUE))
    /\ pc' = IF program = "seller.main" THEN "create_stocks" ELSE "list"
    /\ UNCHANGED <<program, feed, catalogue, campaign, page, product_list,
                   offer_ids, listed, stocks, prices, todo, unawaited, call>>

\* download_stock() raises: inside the try block of seller.main, before the
\* try block of market.main
DownloadStockFails ==
    /\ pc = "download"
    /\ log' = Append(log, Request("download", FALSE))
    /\ pc' = IF program = "seller.main" THEN "aborted" ELSE "crashed"
    /\ UNCHANGED <<program, feed, catalogue, watch_remnants, campaign, page,
                   product_list, offer_ids, listed, stocks, prices, todo,
                   unawaited, call>>

\* where the program goes once get_offer_ids has returned
AfterList == IF program = "seller.main" THEN "download"
             ELSE IF program = "market.main" THEN "create_stocks"
             ELSE "create_prices"

\* get_offer_ids: one page request that succeeds, and the rest of that turn of
\* the loop; on break, the return of the identifiers to the caller
GetProductList ==
    /\ pc = "list"
    /\ LET resp == IF IsSeller
                   THEN ozon_product_list(catalogue[campaign], page)
                   ELSE yandex_product_list(catalogue[campaign], page)
           step == IF IsSeller
                   THEN seller_get_offer_ids_step(product_list, resp)
                   ELSE market_get_offer_ids_step(product_list, resp)
       IN  /\ log' = Append(log, [op |-> "list", campaign |-> campaign,
                                  ok |-> TRUE, cursor |-> page, resp |-> resp])
           /\ product_list' = step.product_list
           /\ page' = step.cursor
           /\ IF step.break
              THEN /\ offer_ids' = step.offer_ids
                   /\ listed' = Append(listed, step.offer_ids)
                   /\ pc' = AfterList
              ELSE UNCHANGED <<offer_ids, listed, pc>>
    /\ UNCHANGED <<program, feed, catalogue, watch_remnants, campaign, stocks,
                   prices, todo, unawaited, call>>

\* get_product_list raises (raise_for_status, timeout, connection error)
GetProductListFails ==
    /\ pc = "list"
    /\ log' = Append(log, [op |-> "list", campaign |-> campaign,
                           ok |-> FALSE, cursor |-> page])
    /\ pc' = Caught
    /\ UNCHANGED <<program, feed, catalogue, watch_remnants, campaign, page,
                   product_list, offer_ids, listed, stocks, prices, todo,
                   unawaited, call>>

\* main: stocks = create_stocks(...) and the list(divide(stocks, ...)) of the
\* for statement that follows it
AfterStocks == IF program = "seller.main" THEN "create_prices" ELSE "upload_prices"

CreateStocks ==
    /\ pc = "create_stocks"
    /\ LET r == IF IsSeller
                THEN seller_create_stocks(watch_remnants, offer_ids)
                ELSE market_create_stocks(watch_remnants, offer_ids, Warehouse(campaign))
       IN  /\ offer_ids' = r.offer_ids
           /\ IF r.raised
              THEN /\ pc' = Caught
                   /\ UNCHANGED <<stocks, todo>>
              ELSE /\ stocks' = r.stocks
                   /\ todo' = divide(r.stocks, StockChunk)
                   /\ pc' = IF r.stocks = <<>> THEN AfterStocks ELSE "update_stocks"
    /\ UNCHANGED <<program, feed, catalogue, watch_remnants, campaign, page,
                   product_list, listed, prices, log, unawaited, call>>

\* update_stocks(some_stock, ...) returns
UpdateStocks ==
    /\ pc = "update_stocks"
    /\ log' = Append(log, [op |-> "stocks", campaign |-> campaign,
                           ok |-> TRUE, batch |-> Head(todo)])
    /\ todo' = Tail(todo)
    /\ pc' = IF Tail(todo) = <<>> THEN AfterStocks ELSE "update_stocks"
    /\ UNCHANGED <<program, feed, catalogue, watch_remnants, campaign, page,
                   product_list, offer_ids, listed, stocks, prices, unawaited,
                   call>>

\* update_stocks raises and the loop goes on with the next batch, as if the
\* try / except stood inside the for statement
UpdateStocksFailsSkipped ==
    /\ pc = "update_stocks"
    /\ log' = Append(log, [op |-> "stocks", campaign |-> campaign,
                           ok |-> FALSE, batch |-> Head(todo)])
    /\ todo' = Tail(todo)
    /\ pc' = IF Tail(todo) = <<>> THEN AfterStocks ELSE "update_stocks"
    /\ UNCHANGED <<program, feed, catalogue, watch_remnants, campaign, page,
                   product_list, offer_ids, listed, stocks, prices, unawaited,
                   call>>

\* update_stocks raises
UpdateStocksFails ==
    /\ pc = "update_stocks"
    /\ log' = Append(log, [op |-> "stocks", campaign |-> campaign,
                           ok |-> FALSE, batch |-> Head(todo)])
    /\ pc' = Caught
    /\ UNCHANGED <<program, feed, catalogue, watch_remnants, campaign, page,
                   product_list, offer_ids, listed, stocks, prices, todo,
                   unawaited, call>>

\* prices = create_prices(watch_remnants, offer_ids) and the
\* list(divide(prices, ...)) of the for statement that follows it, in
\* seller.main and in both upload_prices
CreatePrices ==
    /\ pc = "create_prices"
    /\ LET r == IF IsSeller
                THEN seller_create_prices(watch_remnants, offer_ids)
                ELSE market_create_prices(watch_remnants, offer_ids)
       IN  IF r.raised
           THEN /\ pc' = Caught
                /\ UNCHANGED <<prices, todo>>
           ELSE /\ prices' = r.prices
                /\ todo' = divide(r.prices, PriceChunk)
                /\ pc' = IF r.prices = <<>> THEN "done" ELSE "update_price"
    /\ UNCHANGED <<program, feed, catalogue, watch_remnants, campaign, page,
                   product_list, offer_ids, listed, stocks, log, unawaited,
                   call>>

\* update_price(some_price, ...) returns
UpdatePrice ==
    /\ pc = "update_price"
    /\ log' = Append(log, [op |-> "prices", campaign |-> campaign,
                           ok |-> TRUE, batch |-> Head(todo)])
    /\ todo' = Tail(todo)
    /\ pc' = IF Tail(todo) = <<>> THEN "done" ELSE "update_price"
    /\ UNCHANGED <<program, feed, catalogue, watch_remnants, campaign, page,
                   product_list, offer_ids, listed, stocks, prices, unawaited,
                   call>>

\* update_price raises
UpdatePriceFails ==
    /\ pc = "update_price"
    /\ log' = Append(log, [op |-> "prices", campaign |-> campaign,
                           ok |-> FALSE, batch |-> Head(todo)])
    /\ pc' = Caught
    /\ UNCHANGED <<program, feed, catalogue, watch_remnants, campaign, page,
                   product_list, offer_ids, listed, stocks, prices, todo,
                   unawaited, call>>

\* market.main: upload_prices(...) is an async def called without await: the
\* call builds a coroutine object and runs none of its body; main goes on to
\* the next campaign, whose get_offer_ids starts with fresh locals
UploadPricesNotAwaited ==
    /\ pc = "upload_prices"
    /\ unawaited' = unawaited \cup {campaign}
    /\ IF campaign < Len(Campaigns(program))
       THEN /\ campaign' = campaign + 1
            /\ page' = 0
            /\ product_list' = <<>>
            /\ pc' = "list"
       ELSE /\ pc' = "done"
            /\ UNCHANGED <<campaign, page, product_list>>
    /\ UNCHANGED <<program, feed, catalogue, watch_remnants, offer_ids, listed,
                   stocks, prices, todo, log, call>>

----------------------------------------------------------------------------
\* Direct calls of the reconcilers and of divide on arbitrary arguments

Reconcilers == {"seller.create_stocks", "market.create_stocks",
                "seller.create_prices", "market.create_prices"}

\* the arguments are in place: watch_remnants and offer_ids for a reconciler,
\* stocks (the list) and call.n (the chunk size) for divide
CallInit ==
    /\ program = "call"
    /\ pc = "ready"
    /\ \/ \E fn \in Reconcilers, wr \in Feeds(Rows, MaxFeed), ids \in OfferLists(MaxOffers) :
            /\ call = [fn |-> fn, offer_ids |-> ids, lst |-> <<>>, n |-> 0]
            /\ watch_remnants = wr
            /\ offer_ids = ids
            /\ stocks = <<>>
       \/ \E k \in 0..MaxList, n \in 1..MaxChunk :
            /\ call = [fn |-> "divide", offer_ids |-> <<>>,
                       lst |-> [i \in 1..k |-> i], n |-> n]
            /\ watch_remnants = <<>>
            /\ offer_ids = <<>>
            /\ stocks = [i \in 1..k |-> i]
    /\ feed = <<>>
    /\ catalogue = <<>>
    /\ campaign = 1
    /\ page = 0
    /\ product_list = <<>>
    /\ listed = <<>>
    /\ prices = <<>>
    /\ todo = <<>>
    /\ log = <<>>
    /\ unawaited = {}

CallCreateStocks ==
    /\ pc = "ready"
    /\ call.fn \in {"seller.create_stocks", "market.create_stocks"}
    /\ LET r == IF call.fn = "seller.create_stocks"
                THEN seller_create_stocks(watch_remnants, offer_ids)
                ELSE market_create_stocks(watch_remnants, offer_ids, Warehouse(campaign))
       IN  /\ offer_ids' = r.offer_ids
           /\ stocks' = IF r.raised THEN stocks ELSE r.stocks
           /\ pc' = IF r.raised THEN "raised" ELSE "returned"
    /\ UNCHANGED <<program, feed, catalogue, watch_remnants, campaign, page,
                   product_list, listed, prices, todo, log, unawaited, call>>

CallCreatePrices ==
    /\ pc = "ready"
    /\ call.fn \in {"seller.create_prices", "market.create_prices"}
    /\ LET r == IF call.fn = "seller.create_prices"
                THEN seller_create_prices(watch_remnants, offer_ids)
                ELSE market_create_prices(watch_remnants, offer_ids)
       IN  /\ prices' = IF r.raised THEN prices ELSE r.prices
           /\ pc' = IF r.raised THEN "raised" ELSE "returned"
    /\ UNCHANGED <<program, feed, catalogue, watch_remnants, campaign, page,
                   product_list, offer_ids, listed, stocks, todo, log,
                   unawaited, call>>

CallDivide ==
    /\ pc = "ready"
    /\ call.fn = "divide"
    /\ todo' = divide(stocks, call.n)
    /\ pc' = "returned"
    /\ UNCHANGED <<program, feed, catalogue, watch_remnants, campaign, page,
                   product_list, offer_ids, listed, stocks, prices, log,
                   unawaited, call>>

----------------------------------------------------------------------------

Init == RunInit \/ CallInit

Next ==
    \/ DownloadStock
    \/ DownloadStockFails
    \/ GetProductList
    \/ GetProductListFails
    \/ CreateStocks
    \/ UpdateStocks
    \/ UpdateStocksFails
    \/ CreatePrices
    \/ UpdatePrice
    \/ UpdatePriceFails
    \/ UploadPricesNotAwaited
    \/ CallCreateStocks
    \/ CallCreatePrices
    \/ CallDivide

Spec == Init /\ [][Next]_vars

----------------------------------------------------------------------------
\* Vocabulary of the properties

RECURSIVE Flatten(_)
Flatten(seqs) == IF seqs = <<>> THEN <<>> ELSE Head(seqs) \o Flatten(Tail(seqs))

\* identifier and quantity of a stock record, in either marketplace's shape
StockId(rec) == IF "sku" \in DOMAIN rec THEN rec.sku ELSE rec.offer_id
StockQty(rec) == IF "sku" \in DOMAIN rec THEN rec.items[1].count ELSE rec.stock

\* identifier of a price record, in either marketplace's shape
PriceId(rec) == IF "id" \in DOMAIN rec THEN rec.id ELSE rec.offer_id

\* the quantity rule table of the specification, on the quantities of Rows
NumericValue == (<<"5">> :> 5) @@ (<<"1", "2">> :> 12)
RuleQuantity(q) == IF q = <<">", "1", "0">> THEN 100
                   ELSE IF q = <<"1">> THEN 0
                   ELSE NumericValue[q]

InFeed(id) == \E i \in 1..Len(watch_remnants) : watch_remnants[i].code = id

\* the first supplier record with code id
FirstRow(id) ==
    watch_remnants[CHOOSE i \in 1..Len(watch_remnants) :
        /\ watch_remnants[i].code = id
        /\ \A j \in 1..(i - 1) : watch_remnants[j].code # id]

\* a request op was issued for the current campaign
Submitted(op) ==
    \E k \in 1..Len(log) : log[k].op = op /\ log[k].campaign = campaign

\* create_stocks has returned (called directly, or by a main() that has not
\* yet submitted a batch) and stocks holds its result
StocksReturned ==
    \/ program = "call" /\ pc = "returned"
         /\ call.fn \in {"seller.create_stocks", "market.create_stocks"}
    \/ program \in Mains /\ pc = "update_stocks" /\ ~Submitted("stocks")

\* create_prices has returned and prices holds its result
PricesReturned ==
    \/ program = "call" /\ pc = "returned"
         /\ call.fn \in {"seller.create_prices", "market.create_prices"}
    \/ program \in Uploads /\ pc = "update_price" /\ ~Submitted("prices")

\* the offer identifiers as they were when the reconciler was entered
IdsAtEntry == IF program = "call" THEN call.offer_ids ELSE listed[campaign]

\* the supplier records a reconciler matches when every first record of a
\* listed code counts (stock) or every record of a listed code counts (price)
FirstListedRows ==
    SelectSeq([i \in 1..Len(watch_remnants) |-> i],
              LAMBDA i : /\ InList(watch_remnants[i].code, IdsAtEntry)
                         /\ \A j \in 1..(i - 1) :
                               watch_remnants[j].code # watch_remnants[i].code)

ListedRows ==
    SelectSeq([i \in 1..Len(watch_remnants) |-> i],
              LAMBDA i : InList(watch_remnants[i].code, IdsAtEntry))

Unmatched == SelectSeq(IdsAtEntry, LAMBDA id : ~InFeed(id))

----------------------------------------------------------------------------
\* C1: when create_stocks returns, every offer identifier that was in the
\* collection at the start of the call is in exactly one stock record, with
\* the quantity of the supplier record that matched it or 0 when none did;
\* no record names a code outside the collection and no two records share an
\* identifier.
C1_EveryListedIdOneStock ==
    StocksReturned =>
        /\ \A id \in Range(IdsAtEntry) :
              Cardinality({k \in 1..Len(stocks) : StockId(stocks[k]) = id}) = 1
        /\ \A k \in 1..Len(stocks) :
              /\ StockId(stocks[k]) \in Range(IdsAtEntry)
              /\ StockQty(stocks[k]) =
                    IF InFeed(StockId(stocks[k]))
                    THEN RuleQuantity(FirstRow(StockId(stocks[k])).qty)
                    ELSE 0
        /\ \A j, k \in 1..Len(stocks) :
              j # k => StockId(stocks[j]) # StockId(stocks[k])

\* a direct call with a repeated supplier code, an unlisted supplier code and
\* a listed identifier the supplier does not have
C1_Witness ==
    /\ StocksReturned
    /\ program = "call"
    /\ Len(stocks) = 3
    /\ \E i, j \in 1..Len(watch_remnants) :
          i # j /\ watch_remnants[i].code = watch_remnants[j].code
                /\ InList(watch_remnants[i].code, IdsAtEntry)
    /\ \E i \in 1..Len(watch_remnants) : ~InList(watch_remnants[i].code, IdsAtEntry)
    /\ \E id \in Range(IdsAtEntry) : ~InFeed(id)

\* C4: the records create_stocks emits for supplier records are, in supplier
\* order, one per listed code (its first record), with quantity 100 for ">10",
\* 0 for "1" and the parsed number otherwise; a supplier record whose code is
\* not listed gives no record.
C4_QuantityRule ==
    StocksReturned =>
        /\ Len(stocks) >= Len(FirstListedRows)
        /\ \A k \in 1..Len(FirstListedRows) :
              LET watch == watch_remnants[FirstListedRows[k]]
              IN  /\ StockId(stocks[k]) = watch.code
                  /\ watch.qty = <<">", "1", "0">> => StockQty(stocks[k]) = 100
                  /\ watch.qty = <<"1">> => StockQty(stocks[k]) = 0
                  /\ watch.qty \in DOMAIN NumericValue =>
                        StockQty(stocks[k]) = NumericValue[watch.qty]
        /\ \A i \in 1..Len(watch_remnants) :
              ~InList(watch_remnants[i].code, IdsAtEntry) =>
                  \A k \in 1..Len(stocks) : StockId(stocks[k]) # watch_remnants[i].code

\* records C:"5", A:">10", Z:"1" against the listing C, A, B
C4_Witness ==
    /\ StocksReturned
    /\ [i \in 1..Len(watch_remnants) |->
           <<watch_remnants[i].code, watch_remnants[i].qty>>]
         = << <<"C", <<"5">>>>, <<"A", <<">", "1", "0">>>>, <<"Z", <<"1">>>> >>
    /\ IdsAtEntry = <<"C", "A", "B">>
    /\ [k \in 1..Len(stocks) |-> <<StockId(stocks[k]), StockQty(stocks[k])>>]
         = << <<"C", 5>>, <<"A", 100>>, <<"B", 0>> >>

\* C5: when create_prices returns, its result holds one price record, in
\* supplier order, for each supplier record whose code is in the collection
\* and nothing else, so none for an identifier the supplier does not have;
\* the collection is what it was before the call.
C5_OnePricePerListedRow ==
    PricesReturned =>
        /\ Len(prices) = Len(ListedRows)
        /\ \A k \in 1..Len(prices) :
              PriceId(prices[k]) = watch_remnants[ListedRows[k]].code
        /\ \A id \in Range(IdsAtEntry) :
              ~InFeed(id) => \A k \in 1..Len(prices) : PriceId(prices[k]) # id
        /\ offer_ids = IdsAtEntry

\* a listed identifier without supplier record, and a listed code with two
\* supplier records, which gets two price records
C5_Witness ==
    /\ PricesReturned
    /\ \E id \in Range(IdsAtEntry) : ~InFeed(id)
    /\ \E j, k \in 1..Len(prices) : j # k /\ PriceId(prices[j]) = PriceId(prices[k])
    /\ \E i \in 1..Len(watch_remnants) : ~InList(watch_remnants[i].code, IdsAtEntry)

\* the chunks ch of lst for chunk size n
Chunked(ch, lst, n) ==
    /\ Flatten(ch) = lst
    /\ \A k \in 1..(Len(ch) - 1) : Len(ch[k]) = n
    /\ ch # <<>> => Len(ch[Len(ch)]) \in 1..n
    /\ ch = <<>> <=> lst = <<>>

\* the chunk size at the call site of the loop that issued request e
ChunkSizeOf(e) == IF e.op = "stocks" THEN StockChunk ELSE PriceChunk

\* C8: the chunks of divide(lst, n) concatenate to lst, all have length n but
\* the last, whose length is in 1..n; there is none iff lst is empty; lst is
\* unchanged; and every batch submitted by a run is non-empty and no larger
\* than the chunk size of its call site.
C8_DivideChunks ==
    /\ (program = "call" /\ pc = "returned" /\ call.fn = "divide") =>
          /\ Chunked(todo, call.lst, call.n)
          /\ stocks = call.lst
    /\ StocksReturned /\ program # "call" => Chunked(todo, stocks, StockChunk)
    /\ PricesReturned /\ program # "call" => Chunked(todo, prices, PriceChunk)
    /\ \A k \in 1..Len(log) :
          log[k].op \in {"stocks", "prices"} =>
              Len(log[k].batch) \in 1..ChunkSizeOf(log[k])

\* divide([1, 2, 3, 4, 5], 2) gives [[1, 2], [3, 4], [5]]
C8_Witness ==
    /\ program = "call" /\ pc = "returned" /\ call.fn = "divide"
    /\ call.lst = <<1, 2, 3, 4, 5>> /\ call.n = 2
    /\ todo = << <<1, 2>>, <<3, 4>>, <<5>> >>

\* C10 as stated: when create_stocks returns, the caller's offer-identifier
\* collection is empty.
C10_IdsEmptyAfterwards ==
    StocksReturned => offer_ids = <<>>

\* C10 as amended: when create_stocks returns, the caller's collection holds
\* exactly the identifiers no supplier record matched, in their original
\* order, and the result is the matched records in supplier order followed by
\* a zero record for each of those.
C10_IdsLeftAreUnmatched ==
    StocksReturned =>
        /\ offer_ids = Unmatched
        /\ [k \in 1..Len(stocks) |-> StockId(stocks[k])]
             = [k \in 1..Len(FirstListedRows) |->
                   watch_remnants[FirstListedRows[k]].code] \o Unmatched
        /\ \A k \in (Len(FirstListedRows) + 1)..Len(stocks) : StockQty(stocks[k]) = 0

\* records A:">10", B:"1" against the identifiers A, B, C
C10_Witness ==
    /\ StocksReturned
    /\ [i \in 1..Len(watch_remnants) |->
           <<watch_remnants[i].code, watch_remnants[i].qty>>]
         = << <<"A", <<">", "1", "0">>>>, <<"B", <<"1">>>> >>
    /\ IdsAtEntry = <<"A", "B", "C">>
    /\ [k \in 1..Len(stocks) |-> <<StockId(stocks[k]), StockQty(stocks[k])>>]
         = << <<"A", 100>>, <<"B", 0>>, <<"C", 0>> >>
    /\ offer_ids = <<"C">>

----------------------------------------------------------------------------
\* Runs

Failed(k) == ~log[k].ok

\* the identifiers carried by the price batches submitted for campaign c
PricedIds(c) ==
    UNION {{PriceId(log[k].batch[j]) : j \in 1..Len(log[k].batch)} :
             k \in {k \in 1..Len(log) :
                      log[k].op = "prices" /\ log[k].campaign = c /\ log[k].ok}}

\* the supplier codes listed in campaign c
ListedSupplierCodes(c) ==
    {watch_remnants[i].code : i \in 1..Len(watch_remnants)} \cap Range(listed[c])

\* C2: a run of seller.main that ends without a failure has submitted price
\* updates for exactly the supplier codes that were in the listing fetched at
\* its start.
C2_SellerMainPricesListedCodes ==
    (program = "seller.main" /\ pc = "done") =>
        PricedIds(1) = ListedSupplierCodes(1)

\* C3: a run of market.main that ends without a failure has, for each of its
\* two campaigns that lists some supplier code, submitted a price batch after
\* that campaign's stock batches.
C3_MarketMainSubmitsPrices ==
    (program = "market.main" /\ pc = "done") =>
        \A c \in 1..2 :
            ListedSupplierCodes(c) # {} =>
                \E k \in 1..Len(log) :
                    /\ log[k].op = "prices" /\ log[k].campaign = c
                    /\ \A j \in 1..Len(log) :
                          (log[j].op = "stocks" /\ log[j].campaign = c) => j < k

\* C6: when a request of the FBS campaign has failed in market.main, the run
\* still fetches the listing of the DBS campaign before it ends.
C6_DbsProcessedAfterFbsFailure ==
    (/\ program = "market.main"
     /\ pc \in Terminal
     /\ \E k \in 1..Len(log) :
           Failed(k) /\ log[k].campaign = 1 /\ log[k].op # "download") =>
        \E k \in 1..Len(log) : log[k].op = "list" /\ log[k].campaign = 2

\* C7: in seller.main and market.main, after a failed listing request or batch
\* submission no further request is issued for that campaign, the failed
\* request is not issued again, and every batch but the last submitted one
\* returned successfully.
C7_AbortOnFailureNoRetry ==
    program \in Mains =>
        /\ \A j, k \in 1..Len(log) :
              (j < k /\ Failed(j) /\ log[j].op # "download") =>
                  log[k].campaign # log[j].campaign
        /\ \A k \in 1..Len(log) :
              (Failed(k) /\ log[k].op # "download") => pc = "aborted" /\ k = Len(log)

\* the first stock batch went through, the second failed, and the run ended
\* without submitting anything more
C7_Witness ==
    /\ program \in Mains
    /\ pc = "aborted"
    /\ Len(log) >= 2
    /\ log[Len(log)].op = "stocks" /\ Failed(Len(log))
    /\ log[Len(log) - 1].op = "stocks" /\ ~Failed(Len(log) - 1)
    /\ log[Len(log) - 1].campaign = log[Len(log)].campaign

\* the page requests of campaign c, in order
ListLog(c) == SelectSeq(log, LAMBDA e : e.op = "list" /\ e.campaign = c)

PageIds(e) ==
    IF IsSeller
    THEN [k \in 1..Len(e.resp.items) |-> e.resp.items[k].offer_id]
    ELSE [k \in 1..Len(e.resp.offerMappingEntries) |->
             e.resp.offerMappingEntries[k].offer.shopSku]

NextCursor(e) == IF IsSeller THEN e.resp.last_id ELSE e.resp.paging.nextPageToken

\* the identifiers of the first k pages of L
FetchedIds(L, k) == Flatten([i \in 1..k |-> PageIds(L[i])])

\* the API's termination signal on the k-th page response of L
Signal(L, k) ==
    /\ L[k].ok
    /\ IF IsSeller
       THEN L[k].resp.total = Len(FetchedIds(L, k))
       ELSE L[k].resp.paging.nextPageToken = 0

\* C9: get_offer_ids sends each page request with the cursor the previous
\* response returned, goes on while no response carries the termination
\* signal, returns at the first one that does, and returns the identifiers of
\* all fetched pages in fetch order; for a catalogue of n identifiers it
\* issues at most n / limit + 1 requests, so the loop terminates.
C9_PaginatedListing ==
    program \in Programs =>
        \A c \in 1..Len(Campaigns(program)) :
            LET L == ListLog(c)
            IN  /\ \A k \in 1..Len(L) :
                      L[k].cursor = IF k = 1 THEN 0 ELSE NextCursor(L[k - 1])
                /\ \A k \in 1..(Len(L) - 1) : L[k].ok /\ ~Signal(L, k)
                /\ Len(listed) >= c <=> (L # <<>> /\ Signal(L, Len(L)))
                /\ Len(listed) >= c =>
                      /\ listed[c] = FetchedIds(L, Len(L))
                      /\ listed[c] = catalogue[c]
                /\ Len(L) <= Len(catalogue[c]) \div PageLimit + 1
                /\ (c = campaign /\ pc = "list") => Len(listed) < c

\* a listing that took several page requests has returned
C9_Witness ==
    /\ program \in Programs
    /\ Len(listed) >= 1
    /\ Len(ListLog(1)) >= 2
    /\ Len(listed[1]) >= 2

\* a price record carries the price zero: the integer 0 for Yandex Market,
\* whose record holds a number, the digit string "0" for Ozon, whose record
\* holds the string price_conversion gave
PriceIsZero(rec) == IF "id" \in DOMAIN rec THEN rec.price.value = 0
                    ELSE rec.price = <<"0">>

\* C11: a malformed supplier row does not stop the reconcilers: a directly
\* called create_stocks or create_prices never raises, a listed record whose
\* price normalises to the empty string gets a price record with price 0, and
\* a run ends in an exception handler only after a remote request has failed.
C11_MalformedRowsDegrade ==
    /\ (program = "call" /\ call.fn \in Reconcilers) => pc # "raised"
    /\ PricesReturned =>
          \A k \in 1..Len(prices) :
              price_conversion(watch_remnants[ListedRows[k]].price) = <<>> =>
                  PriceIsZero(prices[k])
    /\ (program \in Programs /\ pc \in {"aborted", "raised"}) =>
          \E k \in 1..Len(log) : Failed(k)

====
